---- MODULE Spec2Model ----
(***************************************************************************)
(* State-machine model of the tuf_update reconciler: Manifest               *)
(* (src/src/manifest.rs) and Updater (src/src/updater.rs).                  *)
(*                                                                         *)
(* One call of Updater::update is a sequence of steps (one per target of   *)
(* the update loop, one per stale entry of the delete pass, two for        *)
(* Manifest::save: File::create, then serde_json::to_writer), so that the  *)
(* process can be killed between any two of them.  The repository's        *)
(* HashMap iteration orders are nondeterministic choices.                  *)
(***************************************************************************)
EXTENDS Integers, Sequences, FiniteSets, TLC

\* ------------------------------------------------------------------ bounds
MaxVersion == 2          \* snapshot versions range over 1..MaxVersion
MaxContents == 3         \* number of distinct {length, sha256} pairs

\* Target names: the running executable and one ordinary file.
Names == {"a", "b"}

\* Contents 1 and 2 share a length and differ in hash.
ContentList == << [length |-> 10, hash |-> "H1"],
                  [length |-> 10, hash |-> "H2"],
                  [length |-> 5,  hash |-> "H3"],
                  [length |-> 7,  hash |-> "H4"] >>

Contents == { ContentList[i] : i \in 1..MaxContents }

\* What a failed save_target may leave at the target's path.
PartialFile == [length |-> 0, hash |-> "H0"]

\* Updater.safe_delete_exe_target: the name of the running executable.
safe_delete_exe_target == "a"

\* All target maps name -> {length, sha256} over a subset of the names.
TargetSets == UNION { [S -> Contents] : S \in SUBSET Names }

\* ------------------------------------------------------------------ state
VARIABLES
    repo_version,      \* repo.snapshot().signed.version
    repo_targets,      \* repo.targets().signed.targets : name -> {length, hash}
    manifest_file,     \* the file at Updater.manifest_file: [kind, m]
    dist_dir,          \* the files under Updater.dist_dir : name -> {length, hash}
    pc,                \* position of the running update() call, "idle" between calls
    snapshot_version,  \* local of update()
    manifest,          \* local of update(): the in-memory Manifest
    update_errs,       \* errs of update_all_targets (the target name of each error)
    deleted_errs,      \* errs of delete_removed_targets
    updated_files,     \* local of update()
    deleted_files,     \* local of update()
    events,            \* what the ProgressWatcher received during this call
    result,            \* how the last update() call ended
    attempted,         \* targets update_target was called with in this call
    fetched,           \* targets repo.save_target was called for in this call
    downloaded,        \* targets repo.save_target succeeded for in this call
    del_attempted,     \* names delete_target was called with in this call
    del_failed,        \* names delete_target returned Err for in this call
    file_at_start,     \* manifest_file as it was when this call started
    last_saved_version, \* version of the last manifest fully written (0: none)
    failed_before      \* what failed in the last pass persisted for this source

vars == << repo_version, repo_targets, manifest_file, dist_dir, pc,
           snapshot_version, manifest, update_errs, deleted_errs,
           updated_files, deleted_files, events, result, attempted, fetched,
           downloaded, del_attempted, del_failed, file_at_start,
           last_saved_version, failed_before >>

repo_vars == << repo_version, repo_targets >>
count_vars == << updated_files, deleted_files >>
update_ghost == << attempted, fetched, downloaded >>
delete_ghost == << del_attempted, del_failed >>

\* ------------------------------------------------------------- functions
Put(f, k, v) == [x \in DOMAIN f \cup {k} |-> IF x = k THEN v ELSE f[x]]
Drop(f, k) == [x \in DOMAIN f \ {k} |-> f[x]]
NoFiles == [x \in {} |-> PartialFile]

RECURSIVE Count(_, _)
Count(s, x) ==
    IF s = <<>> THEN 0
    ELSE (IF Head(s) = x THEN 1 ELSE 0) + Count(Tail(s), x)

\* ---------------------------------------------------------------- Manifest
new_incomplete == [files |-> NoFiles, version |-> 1, incomplete_update |-> TRUE]

\* The manifest file: missing, unparsable (truncated or partly written), or
\* holding the JSON of a Manifest.
MissingFile == [kind |-> "missing", m |-> new_incomplete]
TruncatedFile == [kind |-> "truncated", m |-> new_incomplete]
WrittenFile(m) == [kind |-> "ok", m |-> m]

\* Manifest::load: Ok(manifest) or Err.
load(file) == IF file.kind = "ok" THEN <<file.m>> ELSE <<>>

load_or_new_complete(file) ==
    IF load(file) # <<>> THEN load(file)[1]
    ELSE [new_incomplete EXCEPT !.incomplete_update = FALSE]
load_or_new(file) ==
    IF load(file) # <<>> THEN load(file)[1] ELSE new_incomplete

update_version_neglected(m, v) == m
update_version(m, v) == [m EXCEPT !.version = v]

set_update_complete_result_flipped(m, success) ==
    [m EXCEPT !.incomplete_update = success]
set_update_complete_result(m, success) ==
    [m EXCEPT !.incomplete_update = ~success]

set_target_lost(m, name, length, hash) == m
set_target(m, name, length, hash) ==
    [m EXCEPT !.files = Put(m.files, name, [length |-> length, hash |-> hash])]

is_target_updated(m, name, length, hash) ==
    IF name \in DOMAIN m.files
    THEN m.files[name].length = length \/ m.files[name].hash = hash
    ELSE FALSE

is_updated_version_only(m, v) == m.version = v
is_updated_unnegated(m, v) == m.version = v /\ m.incomplete_update
is_updated(m, v) == m.version = v /\ ~m.incomplete_update

\* ----------------------------------------------------------------- Updater
\* The failures of a pass: targets whose save_target failed, names whose
\* delete_target failed.
Failures(f, d) == [fetch |-> f, del |-> d]
NoFailures == Failures({}, {})

TypeOK ==
    /\ repo_version \in 1..MaxVersion
    /\ repo_targets \in TargetSets
    /\ manifest_file.kind \in {"missing", "truncated", "ok"}
    /\ pc \in {"idle", "update_all_targets", "delete_removed_targets",
               "save_write"}
    /\ result \in {"None", "AlreadyUpdated", "CompleteUpdate", "IncompleteUpdate",
                   "SaveError", "Panicked", "Killed"}

Init ==
    /\ repo_version = 1
    /\ repo_targets \in TargetSets
    /\ manifest_file = MissingFile
    /\ dist_dir = NoFiles
    /\ pc = "idle"
    /\ snapshot_version = 1
    /\ manifest = new_incomplete
    /\ update_errs = <<>>
    /\ deleted_errs = <<>>
    /\ updated_files = 0
    /\ deleted_files = 0
    /\ events = <<>>
    /\ result = "None"
    /\ attempted = {}
    /\ fetched = {}
    /\ downloaded = {}
    /\ del_attempted = {}
    /\ del_failed = {}
    /\ file_at_start = MissingFile
    /\ last_saved_version = 0
    /\ failed_before = NoFailures

\* A new Updater is built over a repository whose snapshot version has grown.
NewRelease ==
    /\ pc = "idle"
    /\ repo_version < MaxVersion
    /\ repo_version' = repo_version + 1
    /\ repo_targets' \in TargetSets
    /\ result' = "None"
    /\ failed_before' = NoFailures
    /\ UNCHANGED << manifest_file, dist_dir, pc, snapshot_version, manifest,
                    update_errs, deleted_errs, count_vars, events,
                    update_ghost, delete_ghost, file_at_start,
                    last_saved_version >>

\* update(), lines 172-181: read the version, load the manifest, short-circuit.
update ==
    /\ pc = "idle"
    /\ snapshot_version' = repo_version
    /\ manifest' = load_or_new(manifest_file)
    /\ file_at_start' = manifest_file
    /\ update_errs' = <<>>
    /\ deleted_errs' = <<>>
    /\ updated_files' = 0
    /\ deleted_files' = 0
    /\ events' = <<>>
    /\ attempted' = {}
    /\ fetched' = {}
    /\ downloaded' = {}
    /\ del_attempted' = {}
    /\ del_failed' = {}
    /\ IF is_updated(load_or_new(manifest_file), repo_version)
       THEN pc' = "idle" /\ result' = "AlreadyUpdated"
       ELSE pc' = "update_all_targets" /\ result' = "None"
    /\ UNCHANGED << repo_vars, manifest_file, dist_dir, last_saved_version,
                    failed_before >>

\* ProgressWatcher events (UpdateProgress, lines 23-28).
Event(type, name, done, total) ==
    [type |-> type, name |-> name, done |-> done, total |-> total]
StartFileDownload(name) == Event("StartFileDownload", name, 0, 0)
UpdateFileProgress(done, total) == Event("UpdateFileProgress", "", done, total)
FinishFileDownload == Event("FinishFileDownload", "", 0, 0)
FinishUpdate == Event("FinishUpdate", "", 0, 0)

\* update_target, lines 95-111: the events of a target that is saved.
download_events(t) ==
    << StartFileDownload(t), UpdateFileProgress(50, 100), FinishFileDownload >>

\* update_target, lines 95-109: the events of a target whose self delete or
\* save_target fails.
failed_events_finished(t) ==
    << StartFileDownload(t), UpdateFileProgress(50, 100), FinishFileDownload >>
failed_events(t) == << StartFileDownload(t), UpdateFileProgress(50, 100) >>

\* The targets the loop of update_all_targets has still to visit.
targets_iter == DOMAIN repo_targets \ attempted

needs_update(t) ==
    ~is_target_updated(manifest, t, repo_targets[t].length, repo_targets[t].hash)

\* update_target, lines 91-93: the manifest entry matches, nothing is done.
update_target_skip(t) ==
    /\ pc = "update_all_targets"
    /\ t \in targets_iter
    /\ ~needs_update(t)
    /\ attempted' = attempted \cup {t}
    /\ UNCHANGED << repo_vars, manifest_file, dist_dir, pc, snapshot_version,
                    manifest, update_errs, deleted_errs, count_vars, events,
                    result, fetched, downloaded, delete_ghost, file_at_start,
                    last_saved_version,
                    failed_before >>

\* update_target, lines 95-102: self_delete() fails and expect() panics.
update_target_panic(t) ==
    /\ pc = "update_all_targets"
    /\ t \in targets_iter
    /\ needs_update(t)
    /\ t = safe_delete_exe_target
    /\ events' = events \o failed_events(t)
    /\ attempted' = attempted \cup {t}
    /\ pc' = "idle"
    /\ result' = "Panicked"
    /\ UNCHANGED << repo_vars, manifest_file, dist_dir, snapshot_version,
                    manifest, update_errs, deleted_errs, count_vars, fetched,
                    downloaded, delete_ghost, file_at_start, last_saved_version,
                    failed_before >>

\* The directory once the self delete (if this is the executable) has succeeded.
after_self_delete(t) ==
    IF t = safe_delete_exe_target THEN Drop(dist_dir, t) ELSE dist_dir

\* update_target, lines 95-114: the target is saved and recorded.
update_target_ok(t) ==
    /\ pc = "update_all_targets"
    /\ t \in targets_iter
    /\ needs_update(t)
    /\ events' = events \o download_events(t)
    /\ dist_dir' = Put(after_self_delete(t), t, repo_targets[t])
    /\ manifest' = set_target(manifest, t, repo_targets[t].length,
                              repo_targets[t].hash)
    /\ attempted' = attempted \cup {t}
    /\ fetched' = fetched \cup {t}
    /\ downloaded' = downloaded \cup {t}
    /\ UNCHANGED << repo_vars, manifest_file, pc, snapshot_version, update_errs,
                    deleted_errs, count_vars, result, delete_ghost,
                    file_at_start, last_saved_version,
                    failed_before >>

\* update_target, lines 95-109, with update_all_targets, lines 122-124:
\* save_target fails (fetch or write); the file is untouched or partly written.
update_target_err(t, partial) ==
    /\ pc = "update_all_targets"
    /\ t \in targets_iter
    /\ needs_update(t)
    /\ events' = events \o failed_events(t)
    /\ dist_dir' = IF partial THEN Put(after_self_delete(t), t, PartialFile)
                   ELSE after_self_delete(t)
    /\ update_errs' = Append(update_errs, t)
    /\ attempted' = attempted \cup {t}
    /\ fetched' = fetched \cup {t}
    /\ UNCHANGED << repo_vars, manifest_file, pc, snapshot_version, manifest,
                    deleted_errs, count_vars, result, downloaded, delete_ghost,
                    file_at_start, last_saved_version,
                    failed_before >>

\* update_all_targets leaving its loop before every target was visited.
update_all_targets_end_early ==
    /\ pc = "update_all_targets"
    /\ updated_files' = Cardinality(DOMAIN repo_targets) - Len(update_errs)
    /\ events' = Append(events, FinishUpdate)
    /\ pc' = "delete_removed_targets"
    /\ UNCHANGED << repo_vars, manifest_file, dist_dir, snapshot_version,
                    manifest, update_errs, deleted_errs, deleted_files, result,
                    update_ghost, delete_ghost, file_at_start,
                    last_saved_version,
                    failed_before >>

\* update_all_targets, lines 126-129: the loop is over.
update_all_targets_end ==
    /\ pc = "update_all_targets"
    /\ targets_iter = {}
    /\ updated_files' = Cardinality(DOMAIN repo_targets) - Len(update_errs)
    /\ events' = Append(events, FinishUpdate)
    /\ pc' = "delete_removed_targets"
    /\ UNCHANGED << repo_vars, manifest_file, dist_dir, snapshot_version,
                    manifest, update_errs, deleted_errs, deleted_files, result,
                    update_ghost, delete_ghost, file_at_start,
                    last_saved_version,
                    failed_before >>

\* The entries retain_targets' closure does not keep (lines 157-159).
removed_targets_none == {}
removed_targets == DOMAIN manifest.files \ DOMAIN repo_targets

\* Manifest::retain_targets: the closure returned false for `name`.
retain_targets_drop(m, name) == [m EXCEPT !.files = Drop(m.files, name)]

\* delete_removed_targets, lines 156-167, delete_target returns Ok: the file
\* did not exist or remove_file succeeded.
delete_target_ok(n) ==
    /\ pc = "delete_removed_targets"
    /\ n \in removed_targets
    /\ dist_dir' = Drop(dist_dir, n)
    /\ deleted_files' = deleted_files + 1
    /\ manifest' = retain_targets_drop(manifest, n)
    /\ del_attempted' = del_attempted \cup {n}
    /\ UNCHANGED << repo_vars, manifest_file, pc, snapshot_version, update_errs,
                    deleted_errs, updated_files, events, result, update_ghost,
                    del_failed, file_at_start, last_saved_version,
                    failed_before >>

\* delete_removed_targets, lines 156-167, delete_target returns Err: the file
\* exists and remove_file fails; the closure still returns false.
delete_target_err(n) ==
    /\ pc = "delete_removed_targets"
    /\ n \in removed_targets
    /\ n \in DOMAIN dist_dir
    /\ deleted_errs' = Append(deleted_errs, n)
    /\ manifest' = retain_targets_drop(manifest, n)
    /\ del_attempted' = del_attempted \cup {n}
    /\ del_failed' = del_failed \cup {n}
    /\ UNCHANGED << repo_vars, manifest_file, dist_dir, pc, snapshot_version,
                    update_errs, count_vars, events, result, update_ghost,
                    file_at_start, last_saved_version,
                    failed_before >>

\* update(), lines 186-187.
errs == update_errs \o deleted_errs

\* update(), lines 188-190: the manifest handed to save.
manifest_to_save ==
    update_version(set_update_complete_result(manifest, errs = <<>>),
                   snapshot_version)

\* update(), lines 186-192, Manifest::save line 42: File::create truncates.
save_create_ok ==
    /\ pc = "delete_removed_targets"
    /\ removed_targets = {}
    /\ manifest' = manifest_to_save
    /\ manifest_file' = TruncatedFile
    /\ pc' = "save_write"
    /\ UNCHANGED << repo_vars, dist_dir, snapshot_version, update_errs,
                    deleted_errs, count_vars, events, result, update_ghost,
                    delete_ghost, file_at_start, last_saved_version,
                    failed_before >>

\* Manifest::save line 42: File::create fails, update() returns the error.
save_create_err ==
    /\ pc = "delete_removed_targets"
    /\ removed_targets = {}
    /\ manifest' = manifest_to_save
    /\ pc' = "idle"
    /\ result' = "SaveError"
    /\ UNCHANGED << repo_vars, manifest_file, dist_dir, snapshot_version,
                    update_errs, deleted_errs, count_vars, events, update_ghost,
                    delete_ghost, file_at_start, last_saved_version,
                    failed_before >>

\* update(), lines 200-204.
update_result == IF errs = <<>> THEN "CompleteUpdate" ELSE "IncompleteUpdate"

\* Manifest::save lines 43-44 and update(), lines 194-204.
save_write_ok ==
    /\ pc = "save_write"
    /\ manifest_file' = WrittenFile(manifest)
    /\ last_saved_version' = manifest.version
    /\ failed_before' = Failures(fetched \ downloaded, del_failed)
    /\ pc' = "idle"
    /\ result' = update_result
    /\ UNCHANGED << repo_vars, dist_dir, snapshot_version, manifest, update_errs,
                    deleted_errs, count_vars, events, update_ghost, delete_ghost,
                    file_at_start >>

\* Manifest::save line 43: to_writer fails part-way, update() returns the error.
save_write_err ==
    /\ pc = "save_write"
    /\ pc' = "idle"
    /\ result' = "SaveError"
    /\ UNCHANGED << repo_vars, manifest_file, dist_dir, snapshot_version,
                    manifest, update_errs, deleted_errs, count_vars, events,
                    update_ghost, delete_ghost, file_at_start,
                    last_saved_version,
                    failed_before >>

\* The process is killed while update() runs.
Kill ==
    /\ pc # "idle"
    /\ pc' = "idle"
    /\ result' = "Killed"
    /\ UNCHANGED << repo_vars, manifest_file, dist_dir, snapshot_version,
                    manifest, update_errs, deleted_errs, count_vars, events,
                    update_ghost, delete_ghost, file_at_start,
                    last_saved_version,
                    failed_before >>

Next ==
    \/ NewRelease
    \/ update
    \/ \E t \in Names : update_target_skip(t)
    \/ \E t \in Names : update_target_panic(t)
    \/ \E t \in Names : update_target_ok(t)
    \/ \E t \in Names, partial \in BOOLEAN : update_target_err(t, partial)
    \/ update_all_targets_end
    \/ \E n \in Names : delete_target_ok(n)
    \/ \E n \in Names : delete_target_err(n)
    \/ save_create_ok
    \/ save_create_err
    \/ save_write_ok
    \/ save_write_err
    \/ Kill

Spec == Init /\ [][Next]_vars
\* ------------------------------------------------------------------ claims
\* The manifest this call of update() started from (line 177).
loaded == load_or_new(file_at_start)

\* update() has returned Ok(CompleteUpdate) or Ok(IncompleteUpdate).
Returned == pc = "idle" /\ result \in {"CompleteUpdate", "IncompleteUpdate"}

\* Targets whose save_target failed in this call.
fetch_failed == fetched \ downloaded

\* Entries the call started with whose name is not in the remote target set.
stale_at_start == DOMAIN loaded.files \ DOMAIN repo_targets

\* The delete pass of this call is over.
DeletePassDone ==
    \/ pc = "save_write"
    \/ pc = "idle" /\ result \in {"CompleteUpdate", "IncompleteUpdate", "SaveError"}

\* C1: after the delete pass, a stale entry whose deletion succeeded (or whose
\* file was already absent) has neither file nor manifest entry; a stale entry
\* whose deletion failed still has both, and its error is reported.
C1_DeletePassOutcome ==
    DeletePassDone =>
        \A n \in stale_at_start :
            IF n \in del_failed
            THEN /\ n \in DOMAIN dist_dir
                 /\ n \in DOMAIN manifest.files
                 /\ Count(errs, n) = 1
            ELSE /\ n \notin DOMAIN dist_dir
                 /\ n \notin DOMAIN manifest.files

\* C2: a pass that persisted the manifest returns CompleteUpdate with a
\* persisted manifest that is_updated(release version) when no target failed,
\* and IncompleteUpdate with incomplete = true, version = release version (so
\* not is_updated) when some download or delete failed.
C2_ResultMatchesFailures ==
    Returned =>
        /\ manifest_file.kind = "ok"
        /\ manifest_file.m.version = repo_version
        /\ IF fetch_failed = {} /\ del_failed = {}
           THEN /\ result = "CompleteUpdate"
                /\ ~manifest_file.m.incomplete_update
           ELSE /\ result = "IncompleteUpdate"
                /\ manifest_file.m.incomplete_update

C2_Witness ==
    /\ Returned
    /\ result = "IncompleteUpdate"
    /\ fetch_failed # {}
    /\ downloaded # {}
    /\ manifest_file.m.incomplete_update
    /\ manifest_file.m.version = repo_version

\* The manifest on disk satisfies is_updated(release version).
OnDiskUpdated ==
    /\ manifest_file.kind = "ok"
    /\ manifest_file.m.version = repo_version
    /\ ~manifest_file.m.incomplete_update

\* C3: a call of update() made while the on-disk manifest is_updated(v) and the
\* source reports v, or right after a CompleteUpdate with the source unchanged,
\* returns AlreadyUpdated with no fetch, no deletion, no event and no change to
\* the manifest file or the distribution directory.
C3_AlreadyUpdatedDoesNothing ==
    [][ (pc = "idle" /\ (OnDiskUpdated \/ result = "CompleteUpdate")
            /\ repo_vars' = repo_vars)
        => /\ pc' = "idle"
           /\ result' = "AlreadyUpdated"
           /\ events' = <<>>
           /\ attempted' = {}
           /\ fetched' = {}
           /\ del_attempted' = {}
           /\ manifest_file' = manifest_file
           /\ dist_dir' = dist_dir ]_vars

C3_Witness ==
    /\ pc = "idle"
    /\ result = "AlreadyUpdated"
    /\ OnDiskUpdated
    /\ DOMAIN dist_dir # {}
    /\ events = <<>>

\* C4: every call of update() that is not short-circuited and ends by itself
\* has attempted every remote target and the deletion of every stale entry,
\* and has persisted the manifest.
C4_NoTargetFailureAbortsPass ==
    (pc = "idle" /\ result \in {"CompleteUpdate", "IncompleteUpdate", "Panicked"})
        => /\ attempted = DOMAIN repo_targets
           /\ stale_at_start \subseteq del_attempted
           /\ manifest_file = WrittenFile(manifest)

\* C5: when a fetch failed in a pass that returned, every downloaded target is
\* recorded with the target's length and hash, a failed target's entry is as
\* it was before the pass (absent if it was absent), the result is
\* IncompleteUpdate with exactly one error per failed target, and the
\* persisted manifest has incomplete = true.
C5_FetchFailureIsolated ==
    (Returned /\ fetch_failed # {}) =>
        /\ manifest_file.kind = "ok"
        /\ \A t \in downloaded :
              /\ t \in DOMAIN manifest_file.m.files
              /\ manifest_file.m.files[t] = repo_targets[t]
        /\ \A t \in fetch_failed :
              IF t \in DOMAIN loaded.files
              THEN /\ t \in DOMAIN manifest_file.m.files
                   /\ manifest_file.m.files[t] = loaded.files[t]
              ELSE t \notin DOMAIN manifest_file.m.files
        /\ result = "IncompleteUpdate"
        /\ \A n \in Names :
              Count(errs, n) = IF n \in fetch_failed \cup del_failed THEN 1 ELSE 0
        /\ manifest_file.m.incomplete_update

C5_Witness ==
    /\ Returned
    /\ downloaded # {}
    /\ \E t \in fetch_failed : t \notin DOMAIN manifest_file.m.files
    /\ Len(errs) = 1

\* C6: in a pass that returned, every remote target that had no manifest entry
\* or whose hash differs from the recorded one was fetched, and if the fetch
\* succeeded its entry holds the target's length and hash.
C6_ChangedHashIsDownloaded ==
    Returned =>
        \A t \in DOMAIN repo_targets :
            (t \notin DOMAIN loaded.files
                \/ loaded.files[t].hash # repo_targets[t].hash)
            => /\ t \in fetched
               /\ t \in downloaded =>
                     /\ t \in DOMAIN manifest_file.m.files
                     /\ manifest_file.m.files[t] = repo_targets[t]

\* C7: the report counts in updated_files the targets downloaded in this pass
\* and in deleted_files the stale files whose deletion succeeded.
C7_ReportCounts ==
    Returned =>
        /\ updated_files = Cardinality(downloaded)
        /\ deleted_files = Cardinality(del_attempted \ del_failed)

\* C8: until the save step of a pass has completed, the manifest file is the
\* one the pass started with, and it is never truncated or partly written.
C8_ManifestWriteAtomic ==
    /\ manifest_file.kind # "truncated"
    /\ (pc # "idle" \/ result \in {"Killed", "SaveError", "Panicked"})
          => manifest_file = file_at_start

\* C9: every manifest written by update() records the release version of the
\* pass, and that version is not below the version of the manifest written
\* before it.
C9_PersistedVersion ==
    [][ (manifest_file' # manifest_file /\ manifest_file'.kind = "ok")
        => /\ manifest_file'.m.version = repo_version
           /\ manifest_file'.m.version >= last_saved_version ]_vars

C9_Witness ==
    /\ Returned
    /\ result = "IncompleteUpdate"
    /\ file_at_start.kind = "ok"
    /\ file_at_start.m.version < manifest_file.m.version
    /\ manifest_file.m.version = repo_version

\* The self delete of this call failed: the executable's download was started
\* and save_target was never called for it.
self_delete_failed ==
    /\ safe_delete_exe_target \in attempted \ fetched
    /\ \E i \in 1..Len(events) :
          events[i] = StartFileDownload(safe_delete_exe_target)

\* C10: a failed self replacement does not end the process; the pass goes on
\* and returns IncompleteUpdate with one error for that target, every target
\* attempted and incomplete = true persisted.
C10_SelfReplaceFailureIsTargetError ==
    self_delete_failed =>
        /\ result # "Panicked"
        /\ (pc = "idle" /\ result \notin {"Killed", "SaveError"})
              => /\ result = "IncompleteUpdate"
                 /\ Count(errs, safe_delete_exe_target) = 1
                 /\ attempted = DOMAIN repo_targets
                 /\ manifest_file = WrittenFile(manifest)
                 /\ manifest_file.m.incomplete_update

\* The update loop of this call is over and its manifest is not yet written.
UpdatePassDone == pc \in {"delete_removed_targets", "save_write"}

\* This call started from a manifest persisted with incomplete = true.
StartedIncomplete == file_at_start.kind = "ok" /\ file_at_start.m.incomplete_update

\* C11: with incomplete = true persisted, a call of update() against the same
\* source does not return AlreadyUpdated, fetches again every target whose
\* download failed in the persisted pass and attempts again every deletion
\* that failed in it.
C11_FailedOperationsRetried ==
    /\ (pc = "idle" /\ result = "AlreadyUpdated")
          => ~(manifest_file.kind = "ok" /\ manifest_file.m.incomplete_update)
    /\ (StartedIncomplete /\ UpdatePassDone)
          => failed_before.fetch \subseteq fetched
    /\ (StartedIncomplete /\ pc = "save_write")
          => failed_before.del \subseteq del_attempted

\* The watcher was told that the download of t started.
DownloadStarted(t) == \E i \in 1..Len(events) : events[i] = StartFileDownload(t)

\* C12: a call of update() that finds the manifest file missing or unparsable
\* starts from version 1, incomplete = true and no entries, is not
\* short-circuited, skips no target, and if it returns it has fetched every
\* target of the remote set.
C12_LoadOrNewDegrades ==
    file_at_start.kind # "ok" =>
        /\ loaded.version = 1
        /\ loaded.incomplete_update
        /\ DOMAIN loaded.files = {}
        /\ (pc = "update_all_targets" /\ attempted = {}) => manifest = loaded
        /\ result # "AlreadyUpdated"
        /\ \A t \in attempted : DownloadStarted(t)
        /\ Returned => fetched = DOMAIN repo_targets

C12_Witness ==
    /\ file_at_start.kind = "truncated"
    /\ Returned
    /\ fetched = DOMAIN repo_targets
    /\ Cardinality(fetched) = 2

\* The manifests the program holds: in memory, on disk, and as loaded.
HeldManifests == {manifest, manifest_file.m, loaded}

\* C13: for every manifest the program holds and every version v,
\* is_updated(v) is true iff the stored version is v and incomplete is false,
\* so never for a manifest with incomplete = true; update() returns
\* AlreadyUpdated only from a manifest file with version = release version and
\* incomplete = false, and never from one with incomplete = true.
C13_IsUpdatedMeaning ==
    /\ \A m \in HeldManifests : \A v \in 1..MaxVersion :
          /\ is_updated(m, v) <=> (m.version = v /\ ~m.incomplete_update)
          /\ m.incomplete_update => ~is_updated(m, v)
    /\ (pc = "idle" /\ result = "AlreadyUpdated")
          => /\ file_at_start.kind = "ok"
             /\ file_at_start.m.version = repo_version
             /\ ~file_at_start.m.incomplete_update
    /\ StartedIncomplete => result # "AlreadyUpdated"

C13_Witness ==
    /\ StartedIncomplete
    /\ file_at_start.m.version = repo_version
    /\ pc = "update_all_targets"
    /\ manifest = file_at_start.m

\* C14: a pass that returned emitted exactly one FinishUpdate, and FinishUpdate
\* is emitted only once the update pass, the delete pass and the manifest
\* write are over: no deletion and no manifest write follows it.
C14_FinishUpdateIsLast ==
    /\ Returned => Count(events, FinishUpdate) = 1
    /\ Count(events, FinishUpdate) >= 1
          => /\ Returned
             /\ manifest_file = WrittenFile(manifest)

\* C15: at every point, each entry of the manifest on disk names a file of
\* the distribution directory with the recorded length and hash.
C15_ManifestMatchesDirectory ==
    manifest_file.kind = "ok" =>
        \A n \in DOMAIN manifest_file.m.files :
            /\ n \in DOMAIN dist_dir
            /\ dist_dir[n] = manifest_file.m.files[n]

\* One step of a call of update() keeps the order of a pass.
PassOrderStep ==
    \* Start -> AlreadyUpdated | UpdatingTargets -> DeletingStaleTargets ->
    \* PersistingManifest -> CompleteUpdate | IncompleteUpdate
    /\ pc = "idle" => pc' \in {"idle", "update_all_targets"}
    /\ pc = "update_all_targets" =>
          \/ pc' \in {"update_all_targets", "delete_removed_targets"}
          \/ pc' = "idle" /\ result' \in {"Killed", "Panicked"}
    /\ pc = "delete_removed_targets" =>
          \/ pc' \in {"delete_removed_targets", "save_write"}
          \/ pc' = "idle" /\ result' \in {"Killed", "SaveError"}
    /\ pc = "save_write" =>
          \/ pc' = "save_write"
          \/ pc' = "idle" /\ result' \in {"CompleteUpdate", "IncompleteUpdate",
                                          "SaveError", "Killed"}
    /\ (result' # result /\ result' = "AlreadyUpdated") => pc = "idle"
    /\ (result' # result /\ result' \in {"CompleteUpdate", "IncompleteUpdate"})
          => pc = "save_write"
    \* a download: no deletion was attempted and the manifest is not written
    /\ fetched' \ fetched # {} =>
          /\ pc = "update_all_targets"
          /\ del_attempted = {} /\ del_attempted' = {}
          /\ manifest_file = file_at_start /\ manifest_file' = manifest_file
    \* a deletion: every target was visited and the manifest is not written
    /\ del_attempted' \ del_attempted # {} =>
          /\ pc = "delete_removed_targets"
          /\ attempted = DOMAIN repo_targets
          /\ fetched' = fetched
          /\ manifest_file = file_at_start /\ manifest_file' = manifest_file
    \* the manifest write: after every download and every deletion, once
    /\ manifest_file' # manifest_file =>
          /\ pc \in {"delete_removed_targets", "save_write"}
          /\ attempted = DOMAIN repo_targets
          /\ stale_at_start \subseteq del_attempted
          /\ fetched' = fetched /\ del_attempted' = del_attempted
          /\ pc = "delete_removed_targets" => manifest_file = file_at_start
          /\ manifest_file'.kind = "ok" => pc' = "idle"

StartsAt(i, t) ==
    /\ i + 1 <= Len(events)
    /\ events[i] = StartFileDownload(t)
    /\ events[i + 1].type = "UpdateFileProgress"

\* The manifest entry of t is as it was when the call started.
EntryUnchanged(t) ==
    IF t \in DOMAIN loaded.files
    THEN t \in DOMAIN manifest.files /\ manifest.files[t] = loaded.files[t]
    ELSE t \notin DOMAIN manifest.files

\* C17: the event stream is a sequence of per-target groups, none inside
\* another: a downloaded target has StartFileDownload(name),
\* UpdateFileProgress, FinishFileDownload in a row and only then a new
\* manifest entry; a skipped target has no event and no fetch (the only
\* started target without a fetch is the executable whose self delete ended
\* the call); a target whose fetch or write failed has StartFileDownload and
\* no FinishFileDownload, and its manifest entry is unchanged.
C17_EventStream ==
    /\ \A i \in 1..Len(events) :
          /\ events[i].type = "StartFileDownload" =>
                /\ i + 1 <= Len(events)
                /\ events[i + 1].type = "UpdateFileProgress"
          /\ events[i].type = "UpdateFileProgress" =>
                /\ i > 1
                /\ events[i - 1].type = "StartFileDownload"
          /\ events[i].type = "FinishFileDownload" =>
                /\ i > 2
                /\ events[i - 1].type = "UpdateFileProgress"
                /\ events[i - 2].type = "StartFileDownload"
                /\ events[i - 2].name \in downloaded
    /\ \A t \in Names :
          /\ Count(events, StartFileDownload(t)) <= 1
          /\ DownloadStarted(t) =>
                \/ t \in fetched
                \/ /\ t = safe_delete_exe_target
                   /\ pc = "idle"
                   /\ Len(events) >= 2
                   /\ StartsAt(Len(events) - 1, t)
          /\ t \in downloaded =>
                \E i \in 1..Len(events) :
                    /\ StartsAt(i, t)
                    /\ i + 2 <= Len(events)
                    /\ events[i + 2] = FinishFileDownload
          /\ t \in fetch_failed =>
                /\ \E i \in 1..Len(events) :
                      /\ StartsAt(i, t)
                      /\ i + 2 <= Len(events) => events[i + 2] # FinishFileDownload
                /\ EntryUnchanged(t)
          /\ (t \in DOMAIN manifest.files /\ ~EntryUnchanged(t)) => t \in downloaded
    /\ Count(events, FinishFileDownload) = Cardinality(downloaded)

C17_Witness ==
    /\ pc = "delete_removed_targets"
    /\ downloaded # {}
    /\ fetch_failed # {}
    /\ Len(events) = 6

\* C18: a manifest persisted by a returned pass names only targets of the
\* remote set, and after CompleteUpdate exactly the targets of the remote set.
C18_PersistedNames ==
    Returned =>
        /\ manifest_file.kind = "ok"
        /\ DOMAIN manifest_file.m.files \subseteq DOMAIN repo_targets
        /\ result = "CompleteUpdate"
              => DOMAIN manifest_file.m.files = DOMAIN repo_targets

C18_Witness ==
    /\ Returned
    /\ result = "CompleteUpdate"
    /\ stale_at_start # {}
    /\ downloaded # {}
    /\ DOMAIN manifest_file.m.files = DOMAIN repo_targets

\* update() has converged: it returned CompleteUpdate or AlreadyUpdated.
Converged == pc = "idle" /\ result \in {"CompleteUpdate", "AlreadyUpdated"}

\* C19: once update() has returned CompleteUpdate (and AlreadyUpdated from
\* then on), the distribution directory holds no file written by an earlier
\* pass under a name that is not in the remote target set.
C19_ConvergedDirectory ==
    Converged => DOMAIN dist_dir \subseteq DOMAIN repo_targets
====
